---- MODULE Spec2Model ----
(***************************************************************************)
(* csv_to_html_gallery.py: read a CSV of purchases, group the records by   *)
(* (Game Name, Game Page Link), render one table row per group and write   *)
(* the document.                                                            *)
(*                                                                         *)
(* A Python str is a sequence of tokens.  A character of data is a token   *)
(* of length one; a literal of the program text (a piece of an f-string,   *)
(* an entity written by html.escape, a template) is one token holding the  *)
(* literal.  The bytes of a string are the concatenation of its tokens.    *)
(***************************************************************************)
EXTENDS Integers, Sequences, FiniteSets, TLC

\* ------------------------------------------------------------------ bounds
MaxRecords == 3

\* ------------------------------------------------------------ Python values
\* None, as csv.DictReader stores it (restval) for a field a short row lacks.
PyNone == <<"None">>

Whitespace == {" ", "\t", "\n", "\r"}

\* Code points of the characters the inputs use (str comparison, unquote).
CodePoint ==
  [c \in {" ", "\"", "#", "%", "&", ",", "/", "1", "2", "4", "5", "7", "<", ">",
          "A", "B", "N", "P", "T", "a", "c", "d", "e", "i", "l", "m", "n", "o",
          "t", "u", "x", "y", "z"} |->
     CASE c = " " -> 32 [] c = "\"" -> 34 [] c = "#" -> 35 [] c = "%" -> 37
       [] c = "&" -> 38 [] c = "," -> 44 [] c = "/" -> 47 [] c = "1" -> 49
       [] c = "2" -> 50 [] c = "4" -> 52 [] c = "5" -> 53 [] c = "7" -> 55
       [] c = "<" -> 60 [] c = ">" -> 62 [] c = "A" -> 65 [] c = "B" -> 66
       [] c = "N" -> 78 [] c = "P" -> 80 [] c = "T" -> 84 [] c = "a" -> 97
       [] c = "c" -> 99 [] c = "d" -> 100 [] c = "e" -> 101 [] c = "i" -> 105
       [] c = "l" -> 108 [] c = "m" -> 109 [] c = "n" -> 110 [] c = "o" -> 111
       [] c = "t" -> 116 [] c = "u" -> 117 [] c = "x" -> 120 [] c = "y" -> 121
       [] c = "z" -> 122]

\* str < str: lexicographic on code points.
RECURSIVE StrLess(_, _)
StrLess(a, b) ==
  IF b = <<>> THEN FALSE
  ELSE IF a = <<>> THEN TRUE
  ELSE IF a[1] = b[1] THEN StrLess(Tail(a), Tail(b))
  ELSE CodePoint[a[1]] < CodePoint[b[1]]

\* tuple < tuple on (game_name, page_link) keys.
KeyLess(k1, k2) ==
  \/ StrLess(k1[1], k2[1])
  \/ k1[1] = k2[1] /\ StrLess(k1[2], k2[2])

\* str.strip()
RECURSIVE LStrip(_)
LStrip(s) ==
  IF s # <<>> /\ s[1] \in Whitespace THEN LStrip(Tail(s)) ELSE s

RECURSIVE RStrip(_)
RStrip(s) ==
  IF s # <<>> /\ s[Len(s)] \in Whitespace
  THEN RStrip(SubSeq(s, 1, Len(s) - 1)) ELSE s

Strip(s) == RStrip(LStrip(s))

\* str.split(","): the pieces between the commas, empty pieces included.
RECURSIVE SplitFrom(_, _, _)
SplitFrom(s, i, piece) ==
  IF i > Len(s) THEN <<piece>>
  ELSE IF s[i] = "," THEN <<piece>> \o SplitFrom(s, i + 1, <<>>)
  ELSE SplitFrom(s, i + 1, Append(piece, s[i]))

Split(s) == SplitFrom(s, 1, <<>>)

\* sep.join(parts)
RECURSIVE Join(_, _)
Join(sep, parts) ==
  IF parts = <<>> THEN <<>>
  ELSE IF Len(parts) = 1 THEN parts[1]
  ELSE parts[1] \o sep \o Join(sep, Tail(parts))

\* str(count) of an f-string: the decimal digits.
Digit(d) ==
  CASE d = 0 -> "0" [] d = 1 -> "1" [] d = 2 -> "2" [] d = 3 -> "3" [] d = 4 -> "4"
    [] d = 5 -> "5" [] d = 6 -> "6" [] d = 7 -> "7" [] d = 8 -> "8" [] d = 9 -> "9"

RECURSIVE Decimal(_)
Decimal(n) ==
  IF n < 10 THEN <<Digit(n)>> ELSE Append(Decimal(n \div 10), Digit(n % 10))

\* urllib.parse.unquote: %XX with two hex digits becomes the character of
\* that code; any other % stays.
HexVal(c) ==
  CASE c = "0" -> 0 [] c = "1" -> 1 [] c = "2" -> 2 [] c = "3" -> 3 [] c = "4" -> 4
    [] c = "5" -> 5 [] c = "6" -> 6 [] c = "7" -> 7 [] c = "8" -> 8 [] c = "9" -> 9
    [] c \in {"a", "A"} -> 10 [] c \in {"b", "B"} -> 11 [] c \in {"c", "C"} -> 12
    [] c \in {"d", "D"} -> 13 [] c \in {"e", "E"} -> 14 [] c \in {"f", "F"} -> 15
    [] OTHER -> -1

Chr(n) == CHOOSE c \in DOMAIN CodePoint : CodePoint[c] = n

RECURSIVE Unquote(_)
Unquote(s) ==
  IF s = <<>> THEN <<>>
  ELSE IF s[1] = "%" /\ Len(s) >= 3 /\ HexVal(s[2]) >= 0 /\ HexVal(s[3]) >= 0
  THEN <<Chr(16 * HexVal(s[2]) + HexVal(s[3]))>> \o Unquote(SubSeq(s, 4, Len(s)))
  ELSE <<s[1]>> \o Unquote(Tail(s))

\* html.escape(s, quote=True)
EscapeChar(c) ==
  CASE c = "&" -> "&amp;" [] c = "<" -> "&lt;" [] c = ">" -> "&gt;"
    [] c = "\"" -> "&quot;" [] c = "'" -> "&#x27;" [] OTHER -> c

HtmlEscape(s) == [i \in 1..Len(s) |-> EscapeChar(s[i])]

\* value or ""
OrEmpty(value) == IF value = PyNone \/ value = <<>> THEN <<>> ELSE value

\* The literal "N/A": the program compares it with data, so it is spelled in
\* characters.
NA == <<"N", "/", "A">>

\* ------------------------------------------------------- the four helpers
safe_text(value) ==
  LET txt == Strip(OrEmpty(value)) IN IF txt # <<>> THEN txt ELSE NA

safe_html(value) == HtmlEscape(OrEmpty(value))

\* The pieces stripped, the empty ones kept.
TagsMut(cell) == [i \in 1..Len(Split(cell)) |-> Strip(Split(cell)[i])]

\* [t.strip() for t in pieces if t.strip()]
RECURSIVE StripNonEmpty(_)
StripNonEmpty(pieces) ==
  IF pieces = <<>> THEN <<>>
  ELSE IF Strip(pieces[1]) # <<>>
  THEN <<Strip(pieces[1])>> \o StripNonEmpty(Tail(pieces))
  ELSE StripNonEmpty(Tail(pieces))

\* tags = [t.strip() for t in cell.split(",") if t.strip()]
Tags(cell) == StripNonEmpty(Split(cell))

Chip(tag) == <<"<a href=\"#\" class=\"filter-chip\">">> \o safe_html(tag) \o <<"</a>">>

make_chips(cell) ==
  IF cell = PyNone \/ cell = <<>> \/ Strip(cell) = <<>> THEN NA
  ELSE LET tags == Tags(cell) IN
       IF tags = <<>> THEN NA
       ELSE Join(<<" ">>, [i \in 1..Len(tags) |-> Chip(tags[i])])

\* ------------------------------------------------------------ the input
\* The header of the CSV export.
FieldNames ==
  <<"Game Name", "Game Page Link", "Author", "Category", "Genre", "Tags",
    "Price", "Description", "Thumbnail">>

\* An export without the Description and Thumbnail columns.
ShortFieldNames == SubSeq(FieldNames, 1, Len(FieldNames) - 2)

Headers == {FieldNames, ShortFieldNames}

\* Data rows, field by field in the order of FieldNames.
RowA ==
  << <<"a">>, <<"u">>, <<"m", "e">>, <<"T", "o", "o", "l">>, <<>>,
     <<"x", ",", " ", "y">>, <<"5">>, <<"d">>, <<"t">> >>

\* The same game as RowA once trimmed, with other metadata.
RowA2 ==
  << <<" ", "a">>, <<"u", " ">>, <<"<", "i", ">">>, <<>>, <<",">>, <<" ">>,
     <<" ", "1">>, <<" ">>, <<"n">> >>

RowB ==
  << <<"B", "&">>, <<"u", "\"">>, <<>>, <<"B", "o", "o", "k">>, <<" ", ",", " ">>,
     <<"A", "c", "t", "i", "o", "n", ",", " ", "P", "u", "z", "z", "l", "e">>,
     <<"<", "1">>, <<>>, <<>> >>

\* Neither name nor link.
RowE ==
  << <<>>, <<" ">>, <<>>, <<>>, <<>>, <<",", ",">>, <<" ">>, <<"N", "/", "A">>,
     <<"%", "7", "4">> >>

\* Rows with fewer fields than the header.
RowShort1 == << <<"a">> >>

\* Name, link and author only: the other fields are None.
RowShort3 == << <<"a">>, <<"u">>, <<"i", "t">> >>

RowSet == {RowA, RowA2, RowB, RowE, RowShort1, RowShort3}

\* The thumbnail files that may exist on disk.
ThumbFiles == { <<"t">> }

SeqsUpTo(S, n) == UNION {[1..k -> S] : k \in 0..n}

\* csv.DictReader: one dict per data row; a field the row lacks is None, a
\* field beyond the header goes under the key None, which nothing reads.
DictReader(fieldnames, row) ==
  [c \in {fieldnames[k] : k \in 1..Len(fieldnames)} |->
     LET k == CHOOSE k \in 1..Len(fieldnames) : fieldnames[k] = c
     IN IF k <= Len(row) THEN row[k] ELSE PyNone]

\* record.get(name, "")
Get(record, name) == IF name \in DOMAIN record THEN record[name] ELSE <<>>

\* ------------------------------------------------------------- grouping
\* The key without the strip.
KeyMut(record) == <<Get(record, "Game Name"), Get(record, "Game Page Link")>>

\* key = (record.get("Game Name", "").strip(), record.get("Game Page Link", "").strip())
Key(record) ==
  <<Strip(Get(record, "Game Name")), Strip(Get(record, "Game Page Link"))>>

\* None.strip() raises AttributeError.
KeyRaises(record) ==
  \/ Get(record, "Game Name") = PyNone
  \/ Get(record, "Game Page Link") = PyNone

\* groups[key].append(record); a dict keeps its keys in insertion order.
GroupAdd(gs, key, record) ==
  IF \E k \in 1..Len(gs) : gs[k].key = key
  THEN [k \in 1..Len(gs) |->
          IF gs[k].key = key
          THEN [gs[k] EXCEPT !.records = Append(@, record)] ELSE gs[k]]
  ELSE Append(gs, [key |-> key, records |-> <<record>>])

\* The loop over the records, for records whose key does not raise.
RECURSIVE GroupAll(_, _)
GroupAll(gs, records) ==
  IF records = <<>> THEN gs
  ELSE GroupAll(GroupAdd(gs, Key(records[1]), records[1]), Tail(records))

\* sorted(groups.items()): the keys are distinct, so the keys decide.
RECURSIVE InsertItem(_, _)
InsertItem(sorted, item) ==
  IF sorted = <<>> THEN <<item>>
  ELSE IF KeyLess(item.key, sorted[1].key) THEN <<item>> \o sorted
  ELSE <<sorted[1]>> \o InsertItem(Tail(sorted), item)

RECURSIVE SortItems(_)
SortItems(gs) ==
  IF gs = <<>> THEN <<>>
  ELSE InsertItem(SortItems(SubSeq(gs, 1, Len(gs) - 1)), gs[Len(gs)])

\* groups.items() as the dict holds them, unsorted.
SortedItemsMut(gs) == gs

SortedItems(gs) == SortItems(gs)

\* ------------------------------------------------------------ rendering
\* records[-1]
FirstMut(records) == records[Len(records)]

\* first = records[0]
First(records) == records[1]

\* Path(thumb_url).exists(): Path("") is the current directory.
Exists(path, files) == path = <<>> \/ path \in files

\* unquote(None) raises TypeError.
ThumbRaises(item) == Get(First(item.records), "Thumbnail") = PyNone

Img(thumb_url, files) ==
  IF thumb_url # <<>> /\ Exists(thumb_url, files)
  THEN <<"<div class=\"thumb-wrapper\">", "<img class=\"thumb\" src=\"">> \o thumb_url
       \o <<"\">", "<img class=\"zoomed\" src=\"">> \o thumb_url
       \o <<"\">", "</div>">>
  ELSE NA

\* The suffix with the test count > 2.
SuffixMut(count) ==
  IF count > 2 THEN <<" ", "(">> \o Decimal(count) \o <<")">> ELSE <<>>

\* suffix = f" ({count})" if count > 1 else ""
Suffix(count) ==
  IF count > 1 THEN <<" ", "(">> \o Decimal(count) \o <<")">> ELSE <<>>

DetailsHtml(description) ==
  IF description # NA
  THEN <<"<details style=\"margin-top:4px;\"><summary style=\"cursor:pointer;\">Description</summary>",
         "<div style=\"margin-top:6px; white-space:pre-wrap; font-size:0.9em; line-height:1.4;\">">>
       \o description \o <<"</div></details>">>
  ELSE <<>>

\* One pass of the loop over the sorted groups, for a group whose thumbnail
\* does not raise: the local variables at the end of the pass.
RenderGroup(item, files) ==
  LET game_name == item.key[1]
      page_link == item.key[2]
      count == Len(item.records)
      first == First(item.records)
      thumb_url == Unquote(Get(first, "Thumbnail"))
      img == Img(thumb_url, files)
      title == safe_html(IF game_name # <<>> THEN game_name ELSE NA)
      suffix == Suffix(count)
      link == safe_html(IF page_link # <<>> THEN page_link ELSE <<"#">>)
      description == safe_html(Get(first, "Description"))
      details_html == DetailsHtml(description)
      title_cell == <<"<a href=\"">> \o link \o <<"\" target=\"_blank\">">>
                    \o title \o suffix \o <<"</a>">> \o details_html
      author == safe_html(Get(first, "Author"))
      category == make_chips(Get(first, "Category"))
      genre == make_chips(Get(first, "Genre"))
      tags == make_chips(Get(first, "Tags"))
      price == safe_text(Get(first, "Price"))
  IN [key |-> item.key, count |-> count, first |-> first, thumb_url |-> thumb_url,
      img |-> img, title |-> title, suffix |-> suffix, link |-> link,
      description |-> description, details_html |-> details_html,
      title_cell |-> title_cell, author |-> author, category |-> category,
      genre |-> genre, tags |-> tags, price |-> price,
      row_html |->
        <<"\n        <tr>\n          <td>">> \o img
        \o <<"</td>\n          <td>">> \o title_cell
        \o <<"</td>\n          <td>">> \o author
        \o <<"</td>\n          <td>">> \o category
        \o <<"</td>\n          <td>">> \o genre
        \o <<"</td>\n          <td>">> \o tags
        \o <<"</td>\n          <td>">> \o price
        \o <<"</td>\n        </tr>">>]

HTML_HEADER == <<"HTML_HEADER">>

HTML_FOOTER == <<"HTML_FOOTER">>

\* What the output file holds before the first run.
OldContent == <<"an older catalog">>

NoRun == [ran |-> FALSE, files |-> {}, doc |-> <<>>]

\* ------------------------------------------------------------ the state
VARIABLES
  csv,          \* the input file: [readable, fieldnames, rows]
  disk,         \* the thumbnail paths that exist
  outFile,      \* the content of the output file
  pc,           \* where the run is
  err,          \* the exception that ended the run, "" if none
  n,            \* records read so far
  groups,       \* groups, as items (key, records) in insertion order
  items,        \* sorted(groups.items())
  locals,       \* the local variables of each finished pass of the render loop
  rows,         \* rows
  html_content, \* html_content of main
  before,       \* the content of the output file when the run began
  last,         \* the latest completed run: the files it saw, the document
  prev          \* the completed run before it

vars ==
  <<csv, disk, outFile, pc, err, n, groups, items, locals, rows, html_content,
    before, last, prev>>

\* groups kept from the run before.
EmptyGroupsMut == groups

\* groups = defaultdict(list)
EmptyGroups == <<>>

Init ==
  /\ csv \in [readable : BOOLEAN, fieldnames : Headers,
              rows : SeqsUpTo(RowSet, MaxRecords)]
  /\ ~csv.readable => csv.fieldnames = FieldNames /\ csv.rows = <<>>
  /\ disk \in SUBSET ThumbFiles
  /\ outFile = OldContent
  /\ pc = "idle"
  /\ err = ""
  /\ n = 0
  /\ groups = <<>>
  /\ items = <<>>
  /\ locals = <<>>
  /\ rows = <<>>
  /\ html_content = <<>>
  /\ before = OldContent
  /\ last = NoRun
  /\ prev = NoRun

\* The records csv.DictReader yields.
Records == [k \in 1..Len(csv.rows) |-> DictReader(csv.fieldnames, csv.rows[k])]

Raise(e) == pc' = "failed" /\ err' = e

\* The user adds or removes a thumbnail file between two runs.
TouchThumb ==
  /\ pc \in {"idle", "done"}
  /\ \E f \in ThumbFiles : disk' = IF f \in disk THEN disk \ {f} ELSE disk \cup {f}
  /\ UNCHANGED <<csv, outFile, pc, err, n, groups, items, locals, rows,
                 html_content, before, last, prev>>

\* main() is called; build_rows opens the CSV.
OpenCsv ==
  /\ pc \in {"idle", "done"}
  /\ before' = outFile
  /\ groups' = EmptyGroups
  /\ n' = 0
  /\ items' = <<>>
  /\ locals' = <<>>
  /\ rows' = <<>>
  /\ html_content' = <<>>
  /\ IF csv.readable THEN pc' = "reading" /\ err' = "" ELSE Raise("InputError")
  /\ UNCHANGED <<csv, disk, outFile, last, prev>>

\* One pass of the loop over csv.DictReader(f).
ReadRecord ==
  /\ pc = "reading"
  /\ n < Len(Records)
  /\ LET record == Records[n + 1] IN
       IF KeyRaises(record)
       THEN Raise("AttributeError") /\ UNCHANGED <<n, groups>>
       ELSE /\ groups' = GroupAdd(groups, Key(record), record)
            /\ n' = n + 1
            /\ UNCHANGED <<pc, err>>
  /\ UNCHANGED <<csv, disk, outFile, items, locals, rows, html_content, before,
                 last, prev>>

\* The reader is exhausted; rows = []; sorted(groups.items()).
SortGroups ==
  /\ pc = "reading"
  /\ n = Len(Records)
  /\ items' = SortedItems(groups)
  /\ pc' = "rendering"
  /\ UNCHANGED <<csv, disk, outFile, err, n, groups, locals, rows, html_content,
                 before, last, prev>>

\* One pass of the loop over the sorted groups.
RenderRow ==
  /\ pc = "rendering"
  /\ Len(rows) < Len(items)
  /\ LET item == items[Len(rows) + 1] IN
       IF ThumbRaises(item)
       THEN Raise("TypeError") /\ UNCHANGED <<locals, rows>>
       ELSE /\ locals' = Append(locals, RenderGroup(item, disk))
            /\ rows' = Append(rows, RenderGroup(item, disk).row_html)
            /\ UNCHANGED <<pc, err>>
  /\ UNCHANGED <<csv, disk, outFile, n, groups, items, html_content, before,
                 last, prev>>

\* return "\n".join(rows); html_content = HTML_HEADER + ... + HTML_FOOTER
Assemble ==
  /\ pc = "rendering"
  /\ Len(rows) = Len(items)
  /\ html_content' = HTML_HEADER \o Join(<<"\n">>, rows) \o HTML_FOOTER
  /\ pc' = "opening"
  /\ UNCHANGED <<csv, disk, outFile, err, n, groups, items, locals, rows, before,
                 last, prev>>

\* write_text opens the output file for writing, which truncates it, or the
\* open fails and leaves the file alone.
OpenOutput ==
  /\ pc = "opening"
  /\ \/ outFile' = <<>> /\ pc' = "writing" /\ UNCHANGED err
     \/ Raise("OutputError") /\ UNCHANGED outFile
  /\ UNCHANGED <<csv, disk, n, groups, items, locals, rows, html_content, before,
                 last, prev>>

\* write_text writes the document and closes the file, or the write fails
\* (the disk is full) with nothing or only the start of the document written.
WriteOutput ==
  /\ pc = "writing"
  /\ \/ outFile' = html_content /\ pc' = "written" /\ UNCHANGED err
     \/ /\ \E k \in {0, 1} : outFile' = SubSeq(html_content, 1, k)
        /\ Raise("OutputError")
  /\ UNCHANGED <<csv, disk, n, groups, items, locals, rows, html_content, before,
                 last, prev>>

\* print(...): the confirmation, or UnicodeEncodeError on a standard output
\* that cannot encode the check mark.
Confirm ==
  /\ pc = "written"
  /\ \/ /\ pc' = "done"
        /\ prev' = last
        /\ last' = [ran |-> TRUE, files |-> disk, doc |-> outFile]
        /\ UNCHANGED err
     \/ Raise("UnicodeEncodeError") /\ UNCHANGED <<last, prev>>
  /\ UNCHANGED <<csv, disk, outFile, n, groups, items, locals, rows, html_content,
                 before>>

Next ==
  \/ TouchThumb
  \/ OpenCsv
  \/ ReadRecord
  \/ SortGroups
  \/ RenderRow
  \/ Assemble
  \/ OpenOutput
  \/ WriteOutput
  \/ Confirm

Spec == Init /\ [][Next]_vars

\* ------------------------------------------------------------- the claims
\* build_rows has just returned its rows to main.
Built == pc = "opening"

\* A string without its surrounding whitespace, by positions.
Trimmed(s) ==
  LET solid == {p \in 1..Len(s) : s[p] \notin Whitespace} IN
  IF solid = {} THEN <<>>
  ELSE SubSeq(s, CHOOSE p \in solid : \A q \in solid : p <= q,
                 CHOOSE p \in solid : \A q \in solid : q <= p)

\* The (trimmed Game Name, trimmed Game Page Link) pair of a record.
TrimmedPair(record) ==
  <<Trimmed(Get(record, "Game Name")), Trimmed(Get(record, "Game Page Link"))>>

Pairs == {TrimmedPair(Records[k]) : k \in 1..Len(Records)}

\* The records of the input having a pair.
Having(pair) == {k \in 1..Len(Records) : TrimmedPair(Records[k]) = pair}

RowKeys == [i \in 1..Len(locals) |-> locals[i].key]

\* C1: build_rows emits as many rows as the records have distinct trimmed
\* (name, link) pairs; no two rows come from the same pair and every record
\* belongs to exactly one row.
C1_OneRowPerPair ==
  Built =>
    /\ Len(rows) = Cardinality(Pairs)
    /\ \A i, j \in 1..Len(rows) : RowKeys[i] = RowKeys[j] => i = j
    /\ \A k \in 1..Len(Records) :
         Cardinality({i \in 1..Len(rows) : RowKeys[i] = TrimmedPair(Records[k])}) = 1

C1_Witness ==
  /\ Built
  /\ Len(Records) = 3
  /\ Len(rows) = 2
  /\ \E k, m \in 1..Len(Records) :
       /\ Get(Records[k], "Game Name") # Get(Records[m], "Game Name")
       /\ TrimmedPair(Records[k]) = TrimmedPair(Records[m])

\* The number a string of decimal digits denotes.
DigitValue(c) == CHOOSE d \in 0..9 : Digit(d) = c

RECURSIVE ParseDecimal(_)
ParseDecimal(ds) ==
  IF Len(ds) = 1 THEN DigitValue(ds[1])
  ELSE 10 * ParseDecimal(SubSeq(ds, 1, Len(ds) - 1)) + DigitValue(ds[Len(ds)])

\* " (n)"
ShowsCount(suffix, count) ==
  /\ Len(suffix) >= 4
  /\ suffix[1] = " " /\ suffix[2] = "(" /\ suffix[Len(suffix)] = ")"
  /\ ParseDecimal(SubSeq(suffix, 3, Len(suffix) - 1)) = count

RECURSIVE SumCounts(_)
SumCounts(ls) == IF ls = <<>> THEN 0 ELSE ls[1].count + SumCounts(Tail(ls))

\* C2: the title of a row ends with " (n)" where n > 1 is the number of
\* records with the row's key, with nothing where that number is 1; the
\* counts of the rows add up to the number of records.
C2_SuffixIsCount ==
  Built =>
    /\ \A i \in 1..Len(locals) :
         LET count == Cardinality(Having(locals[i].key))
             row == locals[i]
         IN /\ count > 1 => ShowsCount(row.suffix, count)
            /\ count = 1 => row.suffix = <<>>
            /\ row.title_cell =
                 <<"<a href=\"">> \o row.link \o <<"\" target=\"_blank\">">>
                 \o row.title \o row.suffix \o <<"</a>">> \o row.details_html
    /\ SumCounts(locals) = Len(Records)

C2_Witness ==
  /\ Built
  /\ \E i \in 1..Len(locals) :
       /\ Cardinality(Having(locals[i].key)) = 3
       /\ locals[i].suffix = <<" ", "(", "3", ")">>

HtmlSignificant == {"<", "&", "\""}

\* C3: no rendered row holds a raw <, & or " that came from a field value.
C3_NoRawMarkup ==
  \A i \in 1..Len(rows) : \A p \in 1..Len(rows[i]) : rows[i][p] \notin HtmlSignificant

\* C4: a row has a <details> element exactly when the escaped description
\* of its representative is not empty.
C4_DetailsIffDescription ==
  \A i \in 1..Len(locals) :
    locals[i].details_html # <<>> <=> locals[i].description # <<>>

\* C5: on a readable input build_rows never raises.
C5_NeverRaises ==
  csv.readable => ~(pc = "failed" /\ err \in {"AttributeError", "TypeError"})

\* C6: a finished run has written the whole document, and a failed run has
\* left the output file as it was.
C6_AllOrNothing ==
  /\ pc = "done" =>
       outFile = HTML_HEADER \o Join(<<"\n">>, rows) \o HTML_FOOTER
  /\ pc = "failed" => outFile = before

\* Lexicographic order of strings by code point, by the first difference.
StrBefore(a, b) ==
  \E p \in 1..Len(b) :
    /\ \A q \in 1..(p - 1) : q <= Len(a) /\ a[q] = b[q]
    /\ \/ p = Len(a) + 1
       \/ p <= Len(a) /\ CodePoint[a[p]] < CodePoint[b[p]]

KeyBefore(k1, k2) ==
  \/ StrBefore(k1[1], k2[1])
  \/ k1[1] = k2[1] /\ StrBefore(k1[2], k2[2])

Perms(m) == {f \in [1..m -> 1..m] : \A a, b \in 1..m : f[a] = f[b] => a = b}

\* The keys of the rows build_rows makes of a record sequence, in order.
KeysOf(records) ==
  LET sorted == SortedItems(GroupAll(EmptyGroups, records))
  IN [i \in 1..Len(sorted) |-> sorted[i].key]

\* C7: the rows are in ascending order of (name, link), and every
\* permutation of the records gives the same sequence of row keys.
C7_Ascending ==
  Built =>
    /\ \A i, j \in 1..Len(RowKeys) : i < j => KeyBefore(RowKeys[i], RowKeys[j])
    /\ \A f \in Perms(Len(Records)) :
         KeysOf([k \in 1..Len(Records) |-> Records[f[k]]]) = RowKeys

C7_Witness ==
  /\ Built
  /\ Len(rows) >= 2
  /\ [i \in 1..Len(groups) |-> groups[i].key] # RowKeys

\* The rows build_rows makes of a record sequence none of whose groups raises.
RowsOf(records, files) ==
  LET sorted == SortedItems(GroupAll(EmptyGroups, records))
  IN [i \in 1..Len(sorted) |-> RenderGroup(sorted[i], files).row_html]

\* The records that are not the first of their pair.
Later == {k \in 1..Len(Records) :
            \E m \in 1..(k - 1) : TrimmedPair(Records[m]) = TrimmedPair(Records[k])}

\* The records a data row of the same pair could stand for.
SamePair(record) ==
  {r \in {DictReader(csv.fieldnames, row) : row \in RowSet} :
     ~KeyRaises(r) /\ TrimmedPair(r) = TrimmedPair(record)}

\* C8: replacing a later duplicate by any record of the same pair leaves
\* every row as it is.
C8_OnlyFirstCounts ==
  Built =>
    \A k \in Later : \A r \in SamePair(Records[k]) :
      RowsOf([Records EXCEPT ![k] = r], disk) = rows

C8_Witness ==
  /\ Built
  /\ \E k \in Later : \E r \in SamePair(Records[k]) :
       /\ Get(r, "Author") # Get(Records[k], "Author")
       /\ Get(r, "Thumbnail") # Get(Records[k], "Thumbnail")
       /\ RowsOf([Records EXCEPT ![k] = r], disk) = rows

\* The pieces of a cell between its commas, by positions.
Pieces(cell) ==
  LET commas == {p \in 1..Len(cell) : cell[p] = ","}
      starts == {0} \cup commas
      NextStop(p) ==
        IF \E q \in commas : q > p
        THEN CHOOSE q \in commas : q > p /\ \A c \in commas : c > p => q <= c
        ELSE Len(cell) + 1
  IN {[at |-> p, text |-> Trimmed(SubSeq(cell, p + 1, NextStop(p) - 1))] : p \in starts}

\* The chips of the pieces from position p on, each preceded by a space
\* but the first.
RECURSIVE ChipsFrom(_, _, _)
ChipsFrom(pieces, p, started) ==
  IF \A x \in pieces : x.at < p \/ x.text = <<>> THEN <<>>
  ELSE LET x == CHOOSE y \in pieces :
                  /\ y.at >= p /\ y.text # <<>>
                  /\ \A z \in pieces : (z.at >= p /\ z.text # <<>>) => y.at <= z.at
       IN (IF started THEN <<" ">> ELSE <<>>)
          \o <<"<a href=\"#\" class=\"filter-chip\">">> \o HtmlEscape(x.text) \o <<"</a>">>
          \o ChipsFrom(pieces, x.at + 1, TRUE)

ChipsOK(cell, out) ==
  LET text == IF cell = PyNone THEN <<>> ELSE cell
      solid == {x \in Pieces(text) : x.text # <<>>}
  IN IF solid = {} THEN out = NA
     ELSE out = ChipsFrom(Pieces(text), 0, FALSE)

\* C9: a chips cell is "N/A" when its field has no non-empty piece, and
\* otherwise one chip per non-empty trimmed piece, in order, space-separated.
C9_Chips ==
  \A i \in 1..Len(locals) :
    /\ ChipsOK(Get(locals[i].first, "Category"), locals[i].category)
    /\ ChipsOK(Get(locals[i].first, "Genre"), locals[i].genre)
    /\ ChipsOK(Get(locals[i].first, "Tags"), locals[i].tags)

C9_Witness ==
  \E i \in 1..Len(locals) :
    /\ Get(locals[i].first, "Tags") =
         <<"A", "c", "t", "i", "o", "n", ",", " ", "P", "u", "z", "z", "l", "e">>
    /\ locals[i].tags =
         <<"<a href=\"#\" class=\"filter-chip\">", "A", "c", "t", "i", "o", "n", "</a>",
           " ",
           "<a href=\"#\" class=\"filter-chip\">", "P", "u", "z", "z", "l", "e", "</a>">>
    /\ locals[i].genre = NA
    /\ Get(locals[i].first, "Genre") = <<" ", ",", " ">>

\* C10 as stated: two completed runs on the same input wrote the same document.
C10_SameOutput ==
  (prev.ran /\ last.ran) => last.doc = prev.doc

\* The decoded thumbnail paths of the first records of the pairs.
FirstThumbs ==
  {Unquote(Get(Records[k], "Thumbnail")) : k \in (1..Len(Records)) \ Later}

\* C10, amended: two completed runs on the same input wrote the same
\* document if the same thumbnails of first records existed in both.
C10_SameOutputSameThumbs ==
  (prev.ran /\ last.ran /\ FirstThumbs \cap prev.files = FirstThumbs \cap last.files)
    => last.doc = prev.doc

C10_Witness ==
  /\ prev.ran /\ last.ran
  /\ prev.files # last.files
  /\ FirstThumbs \cap prev.files = FirstThumbs \cap last.files
  /\ \E k \in Later : Unquote(Get(Records[k], "Thumbnail")) \in ThumbFiles
  /\ last.doc = prev.doc

====
